---- MODULE Spec2Model ----
(***************************************************************************)
(* Model of the cert-webhook relay: the Flask server (src/app.py) and the  *)
(* FastAPI server (src/main.py).  Both accept add / reject requests, call  *)
(* the upstream certificate API, deliver the outcome to callback_url with  *)
(* bounded retries, and keep an in-memory request_tracking dict that       *)
(* GET /status/{id} reads.                                                 *)
(*                                                                         *)
(* Python values are modelled as tagged records so that values of          *)
(* different Python types can be stored in one dict and compared.          *)
(* A dict is a function whose DOMAIN is its key set.                       *)
(***************************************************************************)
EXTENDS Integers, Sequences, FiniteSets, TLC

\* ---------------------------------------------------------------- bounds
MaxRequests == 1
MaxRetryCount == 3

Requests == 1..MaxRequests
\* uuid4 values, numbered in order of generation; one id is never generated
Ids == 1..(MaxRequests + 1)
\* WEBHOOK_RETRY_COUNT = int(os.getenv("WEBHOOK_RETRY_COUNT", "3"))
RetryCounts == 0..MaxRetryCount

\* ---------------------------------------------------------- Python values
PyNone == [py |-> "None"]
PyStr(s) == [py |-> "str", str |-> s]
PyInt(n) == [py |-> "int", int |-> n]
EmptyDict == [k \in {} |-> PyNone]

\* bool(v) for the values the handlers test
Truthy(v) ==
    IF v = PyNone THEN FALSE
    ELSE IF v = EmptyDict THEN FALSE
    ELSE IF "py" \in DOMAIN v /\ v.py = "str" THEN v.str # ""
    ELSE IF "py" \in DOMAIN v /\ v.py = "int" THEN v.int # 0
    ELSE TRUE

IsStr(v) == v # EmptyDict /\ "py" \in DOMAIN v /\ v.py = "str"

\* the timestamp datetime.now(timezone.utc).isoformat() + "Z"; only its
\* presence is observable in the model
Now == PyStr("<utc-iso>Z")

\* dict with key k set to v (d[k] = v)
SetItem(d, k, v) == [x \in DOMAIN d \cup {k} |-> IF x = k THEN v ELSE d[x]]

\* ------------------------------------------------------- inbound requests
RequiredFields == <<"callback_url", "cname_id", "domain", "email", "user_id">>
RequiredFieldSet == {RequiredFields[i] : i \in 1..Len(RequiredFields)}

\* the domain named by the r-th inbound request: distinct requests name
\* distinct domains
DomainNames == <<"a.com", "b.com", "c.com", "d.com">>
DomainOf(r) == DomainNames[((r - 1) % Len(DomainNames)) + 1]
GoodUrl == PyStr("http://cb/x")
HttpUrls == {GoodUrl}

FullBody(d, cb) ==
    [callback_url |-> cb, cname_id |-> PyStr("1"), domain |-> PyStr(d),
     email |-> PyStr("e@a.com"), user_id |-> PyStr("42")]

Without(b, f) == [k \in (DOMAIN b) \ {f} |-> b[k]]

\* the JSON bodies the r-th inbound caller may send: the well-formed one,
\* the ones with one required field missing, no JSON at all, {}, and the
\* ones with an unusable callback_url
InboundBodies(r) ==
    {FullBody(DomainOf(r), GoodUrl)}
        \cup {Without(FullBody(DomainOf(r), GoodUrl), f) :
                  f \in RequiredFieldSet}
        \cup {PyNone, EmptyDict,
              FullBody(DomainOf(r), PyStr("")),
              FullBody(DomainOf(r), PyInt(7))}

MissingOneField(b) ==
    /\ b # PyNone
    /\ \E f \in RequiredFieldSet : DOMAIN b = RequiredFieldSet \ {f}

RECURSIVE FirstMissing(_, _)
FirstMissing(b, i) ==
    IF i > Len(RequiredFields) THEN "none"
    ELSE IF RequiredFields[i] \notin DOMAIN b THEN RequiredFields[i]
    ELSE FirstMissing(b, i + 1)

\* validation of cert_add / cert_reject in the Flask server: "ok" or the
\* message of the 400 response
FlaskValidate(b) ==
    IF ~Truthy(b) THEN "Missing JSON body"
    ELSE IF FirstMissing(b, 1) # "none" THEN "Missing required field"
    ELSE IF ~Truthy(b.callback_url) \/ ~IsStr(b.callback_url)
         THEN "Invalid callback_url"
    ELSE "ok"

\* validation by the pydantic models CertAddRequest / CertRejectRequest
PydanticValid(b) ==
    /\ b # PyNone
    /\ RequiredFieldSet \subseteq DOMAIN b
    /\ b.callback_url \in HttpUrls

\* ------------------------------------------------------ outbound HTTP calls
\* What one requests.post call can meet: a timeout, another transport
\* failure, or a response with a status code and a body text.
TimeoutOutcome == [kind |-> "timeout"]
ConnErrOutcome == [kind |-> "connerr"]
Response(c, b) == [kind |-> "response", code |-> c, body |-> b]

JsonTexts == {"null", "{}", "{\"cert\":\"PEM\"}"}
BodyTexts == JsonTexts \cup {"<html>"}
CallbackCodes == {200, 304, 500}

\* the upstream API: no answer in time, no connection, every body with 200,
\* and one answer each with a 3xx, a 4xx and a 5xx code
UpstreamOutcomes ==
    {TimeoutOutcome, ConnErrOutcome}
        \cup {Response(200, b) : b \in BodyTexts}
        \cup {Response(304, "<html>"), Response(404, "{}"),
              Response(500, "<html>")}

\* the callback endpoint, as met by one delivery on its own
CallbackOutcomes ==
    {TimeoutOutcome, ConnErrOutcome}
        \cup {Response(c, "ok") : c \in CallbackCodes}

\* the callback endpoint, as met by the deliveries of the running server
RelayCallbackOutcomes == {TimeoutOutcome, Response(200, "ok")}

Is2xx(o) == o.kind = "response" /\ o.code >= 200 /\ o.code < 300

\* requests.Response.raise_for_status raises HTTPError for 4xx and 5xx
RaisesForStatus(resp) == resp.code >= 400 /\ resp.code < 600

\* requests.Response.__bool__ is Response.ok: true iff raise_for_status
\* would not raise
ResponseBool(resp) == ~RaisesForStatus(resp)

\* response.json(): the parsed value; JSON null parses to None
JsonParses(text) == text \in JsonTexts
JsonValue(text) ==
    IF text = "null" THEN PyNone ELSE [py |-> "json", json |-> text]

\* The exception class that post + raise_for_status (+ json, when the caller
\* parses the body) ends with, "none" when the call returns normally.
\* Timeout, ConnectionError, HTTPError and JSONDecodeError are all
\* subclasses of requests.exceptions.RequestException.
PostRaises(o, parse) ==
    IF o.kind = "timeout" THEN "Timeout"
    ELSE IF o.kind = "connerr" THEN "ConnectionError"
    ELSE IF RaisesForStatus(o) THEN "HTTPError"
    ELSE IF parse /\ ~JsonParses(o.body) THEN "JSONDecodeError"
    ELSE "none"

AddApiUrl == PyStr("<base>/api/v1.0/cert/add")
RejectApiUrl == PyStr("<base>/api/v1.0/cert/reject")

\* _call_cert_api: <<result, error_info>>
call_cert_api(o) ==
    LET exc == PostRaises(o, TRUE) IN
    IF exc = "none" THEN <<JsonValue(o.body), PyNone>>
    ELSE IF exc = "Timeout" THEN
        <<PyNone, [error_type |-> "timeout",
                   message |-> PyStr("Cert API request timed out"),
                   api_url |-> AddApiUrl]>>
    ELSE IF exc = "HTTPError" THEN
        LET base == [error_type |-> "http_error",
                     status_code |-> IF ResponseBool(o) THEN PyInt(o.code)
                                     ELSE PyNone,
                     message |-> PyStr("<str(e)>"),
                     api_url |-> AddApiUrl]
        IN <<PyNone,
             IF ResponseBool(o) /\ JsonParses(o.body)
             THEN SetItem(base, "response_body", JsonValue(o.body))
             ELSE base>>
    ELSE
        <<PyNone, [error_type |-> "request_error",
                   message |-> PyStr("<str(e)>"),
                   api_url |-> AddApiUrl]>>

\* _call_reject_api (FastAPI server): <<result, error_info>>
call_reject_api(o) ==
    IF PostRaises(o, TRUE) = "none" THEN <<JsonValue(o.body), PyNone>>
    ELSE <<PyNone, [error_type |-> "request_error",
                    message |-> PyStr("<str(e)>"),
                    api_url |-> RejectApiUrl]>>

\* ------------------------------------------------------------------ state
WEBHOOK_RETRY_DELAY == 5

VARIABLES
    variant,              \* "flask" (src/app.py) or "fastapi" (src/main.py)
    WEBHOOK_RETRY_COUNT,  \* the configured value, fixed at start-up
    uuids,                \* how many ids uuid.uuid4() has produced
    request_tracking,     \* dict: request id -> record (dict)
    h,                    \* per inbound request: the HTTP handler
    tpc,                  \* per inbound request: position of its background task
    up,                   \* per inbound request: the upstream call and its results
    wh                    \* per inbound request: the _send_webhook call

vars == <<variant, WEBHOOK_RETRY_COUNT, uuids, request_tracking,
          h, tpc, up, wh>>

NoResponse == [code |-> 0]
NoOutcome == [kind |-> "none"]
NoPayload == [status |-> "none"]

HandlerInit ==
    [pc |-> "idle", op |-> "none", body |-> PyNone, request_id |-> 0,
     response |-> NoResponse]
UpInit ==
    [calls |-> 0, outcome |-> NoOutcome, api_result |-> PyNone,
     error_info |-> PyNone]
WebhookInit ==
    [pc |-> "idle", callback_url |-> PyNone, payload |-> NoPayload,
     retry_count |-> 0, log |-> <<>>, ret |-> "none"]

Init ==
    /\ variant \in {"flask", "fastapi"}
    /\ WEBHOOK_RETRY_COUNT \in RetryCounts
    /\ uuids = 0
    /\ request_tracking = [i \in {} |-> EmptyDict]
    /\ h = [r \in Requests |-> HandlerInit]
    /\ tpc = [r \in Requests |-> "none"]
    /\ up = [r \in Requests |-> UpInit]
    /\ wh = [r \in Requests |-> WebhookInit]

\* ------------------------------------------------------------- responses
ErrorResponse(message, status) ==
    [code |-> status, body |-> [status |-> "error", message |-> message]]

\* FastAPI answers a body that fails the pydantic model with 422; main.py
\* installs no handler of its own for it
ValidationErrorResponse ==
    [code |-> 422, body |-> [detail |-> "<validation errors>"]]

HTTPExceptionResponse(status, detail) ==
    [code |-> status, body |-> [detail |-> detail]]

AcceptedResponse(id, domain) ==
    [code |-> 202,
     body |-> [status |-> "accepted", request_id |-> id,
               message |-> "Request received and processing started",
               domain |-> domain]]

RejectSuccessResponse(id) ==
    [code |-> 200,
     body |-> [status |-> "success", request_id |-> id,
               message |-> "Reject request processed and webhook sent"]]

\* the 400/422 answer to a body that fails validation, NoResponse if it passes
Rejection(b) ==
    IF variant = "flask"
    THEN IF FlaskValidate(b) = "ok" THEN NoResponse
         ELSE ErrorResponse(FlaskValidate(b), 400)
    ELSE IF PydanticValid(b) THEN NoResponse ELSE ValidationErrorResponse

\* ---------------------------------------------------------------- cert_add
\* Validation, uuid4 and the start of the background work.  The Flask server
\* starts a thread, which runs from now on; the FastAPI server queues the
\* task on BackgroundTasks, which run once the response has been produced.
CertAdd(r, b) ==
    /\ h[r].pc = "idle"
    /\ IF Rejection(b) # NoResponse
       THEN /\ h' = [h EXCEPT ![r] = [@ EXCEPT !.pc = "done", !.op = "add",
                                         !.body = b,
                                         !.response = Rejection(b)]]
            /\ UNCHANGED <<uuids, tpc>>
       ELSE /\ uuids' = uuids + 1
            /\ h' = [h EXCEPT ![r] = [@ EXCEPT !.pc = "started", !.op = "add",
                                         !.body = b,
                                         !.request_id = uuids + 1]]
            /\ tpc' = [tpc EXCEPT ![r] = IF variant = "flask" THEN "start"
                                         ELSE "queued"]
    /\ UNCHANGED <<variant, WEBHOOK_RETRY_COUNT, request_tracking, up, wh>>

\* cert_add joining its background work before it returns
CertAddRespond_after_task(r) ==
    /\ h[r].pc = "started"
    /\ h[r].op = "add"
    /\ tpc[r] = "done"
    /\ h' = [h EXCEPT ![r] = [@ EXCEPT !.pc = "done",
                 !.response = AcceptedResponse(h[r].request_id,
                                               h[r].body.domain)]]
    /\ UNCHANGED <<variant, WEBHOOK_RETRY_COUNT, uuids, request_tracking,
                   tpc, up, wh>>

\* the return statement of cert_add: the 202 response
CertAddRespond(r) ==
    /\ h[r].pc = "started"
    /\ h[r].op = "add"
    /\ h' = [h EXCEPT ![r] = [@ EXCEPT !.pc = "done",
                 !.response = AcceptedResponse(h[r].request_id,
                                               h[r].body.domain)]]
    /\ tpc' = [tpc EXCEPT ![r] = IF @ = "queued" THEN "start" ELSE @]
    /\ UNCHANGED <<variant, WEBHOOK_RETRY_COUNT, uuids, request_tracking,
                   up, wh>>

\* _process_cert_request filing the record under another key than its
\* own request_id
ProcessCreate_wrong_key(r) ==
    /\ tpc[r] = "start"
    /\ request_tracking' =
           SetItem(request_tracking, h[r].request_id + 1,
                   [status |-> "processing", requested_at |-> Now,
                    domain |-> h[r].body.domain,
                    callback_url |-> h[r].body.callback_url])
    /\ tpc' = [tpc EXCEPT ![r] = "call"]
    /\ UNCHANGED <<variant, WEBHOOK_RETRY_COUNT, uuids, h, up, wh>>

\* ---------------------------------------------------- _process_cert_request
\* "# Update tracking": request_tracking[request_id] = {...}
ProcessCreate(r) ==
    /\ tpc[r] = "start"
    /\ request_tracking' =
           SetItem(request_tracking, h[r].request_id,
                   [status |-> "processing", requested_at |-> Now,
                    domain |-> h[r].body.domain,
                    callback_url |-> h[r].body.callback_url])
    /\ tpc' = [tpc EXCEPT ![r] = "call"]
    /\ UNCHANGED <<variant, WEBHOOK_RETRY_COUNT, uuids, h, up, wh>>

AddErrorPayload(id, domain, error_info) ==
    LET base == [status |-> "error", request_id |-> id,
                 message |-> "Failed to call cert API",
                 domain |-> domain, timestamp |-> Now]
    IN IF Truthy(error_info) THEN SetItem(base, "error_details", error_info)
       ELSE base

AddSuccessPayload(id, domain, api_result) ==
    [status |-> "success", request_id |-> id, domain |-> domain,
     timestamp |-> Now, cert_data |-> api_result]

\* response.json() failing with an exception that _call_cert_api does not
\* catch: the task dies in its upstream call
ProcessCall_json_error_escapes(r, o) ==
    /\ tpc[r] = "call"
    /\ LET res == call_cert_api(o) IN
       /\ up' = [up EXCEPT ![r] = [calls |-> @.calls + 1, outcome |-> o,
                                   api_result |-> res[1],
                                   error_info |-> res[2]]]
       /\ IF PostRaises(o, TRUE) = "JSONDecodeError"
          THEN /\ tpc' = [tpc EXCEPT ![r] = "dropped"]
               /\ UNCHANGED wh
          ELSE IF res[1] = PyNone
          THEN /\ tpc' = [tpc EXCEPT ![r] = "fail_status"]
               /\ wh' = [wh EXCEPT ![r] = [@ EXCEPT
                      !.callback_url = h[r].body.callback_url,
                      !.payload = AddErrorPayload(h[r].request_id,
                                      h[r].body.domain, res[2])]]
          ELSE /\ tpc' = [tpc EXCEPT ![r] = "ok_status"]
               /\ wh' = [wh EXCEPT ![r] = [@ EXCEPT
                      !.callback_url = h[r].body.callback_url,
                      !.payload = AddSuccessPayload(h[r].request_id,
                                      h[r].body.domain, res[1])]]
    /\ UNCHANGED <<variant, WEBHOOK_RETRY_COUNT, uuids, request_tracking, h>>

\* _process_cert_request calling the upstream a second time after a failure
ProcessCall_retry_once(r, o) ==
    /\ tpc[r] = "call"
    /\ LET res == call_cert_api(o) IN
       /\ up' = [up EXCEPT ![r] = [calls |-> @.calls + 1, outcome |-> o,
                                   api_result |-> res[1],
                                   error_info |-> res[2]]]
       /\ IF res[1] = PyNone /\ up[r].calls = 0
          THEN UNCHANGED <<tpc, wh>>
          ELSE IF res[1] = PyNone
          THEN /\ tpc' = [tpc EXCEPT ![r] = "fail_status"]
               /\ wh' = [wh EXCEPT ![r] = [@ EXCEPT
                      !.callback_url = h[r].body.callback_url,
                      !.payload = AddErrorPayload(h[r].request_id,
                                      h[r].body.domain, res[2])]]
          ELSE /\ tpc' = [tpc EXCEPT ![r] = "ok_status"]
               /\ wh' = [wh EXCEPT ![r] = [@ EXCEPT
                      !.callback_url = h[r].body.callback_url,
                      !.payload = AddSuccessPayload(h[r].request_id,
                                      h[r].body.domain, res[1])]]
    /\ UNCHANGED <<variant, WEBHOOK_RETRY_COUNT, uuids, request_tracking, h>>

\* api_result, error_info = _call_cert_api(request_data), the test
\* "api_result is None" and the construction of the webhook payload
ProcessCall(r, o) ==
    /\ tpc[r] = "call"
    /\ LET res == call_cert_api(o) IN
       /\ up' = [up EXCEPT ![r] = [calls |-> @.calls + 1, outcome |-> o,
                                   api_result |-> res[1],
                                   error_info |-> res[2]]]
       /\ IF res[1] = PyNone
          THEN /\ tpc' = [tpc EXCEPT ![r] = "fail_status"]
               /\ wh' = [wh EXCEPT ![r] = [@ EXCEPT
                      !.callback_url = h[r].body.callback_url,
                      !.payload = AddErrorPayload(h[r].request_id,
                                      h[r].body.domain, res[2])]]
          ELSE /\ tpc' = [tpc EXCEPT ![r] = "ok_status"]
               /\ wh' = [wh EXCEPT ![r] = [@ EXCEPT
                      !.callback_url = h[r].body.callback_url,
                      !.payload = AddSuccessPayload(h[r].request_id,
                                      h[r].body.domain, res[1])]]
    /\ UNCHANGED <<variant, WEBHOOK_RETRY_COUNT, uuids, request_tracking, h>>

\* the update replacing the whole record by the one field
TrackerSet_replace(id, k, v) ==
    [request_tracking EXCEPT ![id] = SetItem(EmptyDict, k, v)]

\* the assignment landing in the record of the latest request instead of
\* the task's own
TrackerSet_latest(id, k, v) ==
    [request_tracking EXCEPT ![uuids] = SetItem(@, k, v)]

\* request_tracking[request_id][k] = v
TrackerSet(id, k, v) ==
    [request_tracking EXCEPT ![id] = SetItem(@, k, v)]

\* one assignment to the record, moving the task from pc to next
ProcessSet(r, pc, k, v, next) ==
    /\ tpc[r] = pc
    /\ request_tracking' = TrackerSet(h[r].request_id, k, v)
    /\ tpc' = [tpc EXCEPT ![r] = next]

\* the failure path writing the error text before the status
ProcessFailStatus_error_first(r) ==
    /\ ProcessSet(r, "fail_status", "error",
                  IF Truthy(up[r].error_info) THEN up[r].error_info
                  ELSE PyStr("API call failed"),
                  "fail_error")
    /\ UNCHANGED <<variant, WEBHOOK_RETRY_COUNT, uuids, h, up, wh>>

ProcessFailStatus(r) ==
    /\ ProcessSet(r, "fail_status", "status", "failed", "fail_error")
    /\ UNCHANGED <<variant, WEBHOOK_RETRY_COUNT, uuids, h, up, wh>>

\* ["error"] = error_info or "API call failed"; then _send_webhook is entered
ProcessFailError(r) ==
    /\ ProcessSet(r, "fail_error", "error",
                  IF Truthy(up[r].error_info) THEN up[r].error_info
                  ELSE PyStr("API call failed"),
                  "fail_webhook")
    /\ wh' = [wh EXCEPT ![r] = [@ EXCEPT !.pc = "post"]]
    /\ UNCHANGED <<variant, WEBHOOK_RETRY_COUNT, uuids, h, up>>

\* the success path entering _send_webhook before it has written anything
\* to the record
ProcessOkStatus_webhook_first(r) ==
    /\ tpc[r] = "ok_status"
    /\ tpc' = [tpc EXCEPT ![r] = "ok_webhook"]
    /\ wh' = [wh EXCEPT ![r] = [@ EXCEPT !.pc = "post"]]
    /\ UNCHANGED <<variant, WEBHOOK_RETRY_COUNT, uuids, request_tracking, h,
                   up>>

ProcessOkStatus(r) ==
    /\ ProcessSet(r, "ok_status", "status", "completed", "ok_completed_at")
    /\ UNCHANGED <<variant, WEBHOOK_RETRY_COUNT, uuids, h, up, wh>>

ProcessOkCompletedAt(r) ==
    /\ ProcessSet(r, "ok_completed_at", "completed_at", Now, "ok_result")
    /\ UNCHANGED <<variant, WEBHOOK_RETRY_COUNT, uuids, h, up, wh>>

\* ["result"] = api_result; then _send_webhook is entered
ProcessOkResult(r) ==
    /\ ProcessSet(r, "ok_result", "result", up[r].api_result, "ok_webhook")
    /\ wh' = [wh EXCEPT ![r] = [@ EXCEPT !.pc = "post"]]
    /\ UNCHANGED <<variant, WEBHOOK_RETRY_COUNT, uuids, h, up>>

\* the delivery outcome written over status instead of webhook_status
ProcessWebhookStatus_over_status(r) ==
    /\ wh[r].pc = "returned"
    /\ ProcessSet(r, "ok_webhook", "status",
                  IF wh[r].ret = "True" THEN "completed" ELSE "failed", "done")
    /\ UNCHANGED <<variant, WEBHOOK_RETRY_COUNT, uuids, h, up, wh>>

\* webhook_status after _send_webhook has returned
ProcessWebhookStatus(r) ==
    /\ wh[r].pc = "returned"
    /\ ProcessSet(r, "ok_webhook", "webhook_status",
                  IF wh[r].ret = "True" THEN "sent" ELSE "failed", "done")
    /\ UNCHANGED <<variant, WEBHOOK_RETRY_COUNT, uuids, h, up, wh>>

\* the bare return after _send_webhook on the failure path
ProcessFailReturn(r) ==
    /\ tpc[r] = "fail_webhook"
    /\ wh[r].pc = "returned"
    /\ tpc' = [tpc EXCEPT ![r] = "done"]
    /\ UNCHANGED <<variant, WEBHOOK_RETRY_COUNT, uuids, request_tracking, h,
                   up, wh>>

\* ------------------------------------------------------------ _send_webhook
PostEvent(n, o) == [ev |-> "post", attempt |-> n, outcome |-> o]
SleepEvent == [ev |-> "sleep", delay |-> WEBHOOK_RETRY_DELAY]

\* send_webhook_attempt with the retry test off by one
\* (retry_count < WEBHOOK_RETRY_COUNT)
send_webhook_attempt_off_by_one(w, o) ==
    LET posted == Append(w.log, PostEvent(w.retry_count + 1, o))
        exc == PostRaises(o, FALSE)
    IN IF exc = "none"
       THEN [w EXCEPT !.log = posted, !.pc = "returned", !.ret = "True"]
       ELSE IF w.retry_count < WEBHOOK_RETRY_COUNT
       THEN [w EXCEPT !.log = Append(posted, SleepEvent),
                      !.retry_count = @ + 1]
       ELSE [w EXCEPT !.log = posted, !.pc = "returned", !.ret = "False"]

\* send_webhook_attempt sleeping before it looks at the retry budget, and
\* longer on each retry
send_webhook_attempt_sleep_first(w, o) ==
    LET posted == Append(w.log, PostEvent(w.retry_count + 1, o))
        slept == Append(posted,
                     [ev |-> "sleep",
                      delay |-> WEBHOOK_RETRY_DELAY * (w.retry_count + 1)])
        exc == PostRaises(o, FALSE)
    IN IF exc = "none"
       THEN [w EXCEPT !.log = posted, !.pc = "returned", !.ret = "True"]
       ELSE IF w.retry_count < WEBHOOK_RETRY_COUNT - 1
       THEN [w EXCEPT !.log = slept, !.retry_count = @ + 1]
       ELSE [w EXCEPT !.log = slept, !.pc = "returned", !.ret = "False"]

\* One activation of _send_webhook(callback_url, payload, retry_count): the
\* POST, and on Timeout / RequestException either time.sleep and the
\* recursive call with retry_count + 1, or return False.
send_webhook_attempt(w, o) ==
    LET posted == Append(w.log, PostEvent(w.retry_count + 1, o))
        exc == PostRaises(o, FALSE)
    IN IF exc = "none"
       THEN [w EXCEPT !.log = posted, !.pc = "returned", !.ret = "True"]
       ELSE IF w.retry_count < WEBHOOK_RETRY_COUNT - 1
       THEN [w EXCEPT !.log = Append(posted, SleepEvent),
                      !.retry_count = @ + 1]
       ELSE [w EXCEPT !.log = posted, !.pc = "returned", !.ret = "False"]

SendWebhook(r, o) ==
    /\ wh[r].pc = "post"
    /\ wh' = [wh EXCEPT ![r] = send_webhook_attempt(@, o)]
    /\ UNCHANGED <<variant, WEBHOOK_RETRY_COUNT, uuids, request_tracking, h,
                   tpc, up>>

\* ------------------------------------------------------------- cert_reject
RejectSuccessPayload(id, domain, api_result) ==
    [status |-> "success", request_id |-> id, action |-> "reject",
     domain |-> domain, timestamp |-> Now, result |-> api_result]

RejectErrorPayload(id, domain, error_info) ==
    LET base == [status |-> "error", request_id |-> id, action |-> "reject",
                 message |-> "Failed to process reject request: <message>",
                 domain |-> domain, timestamp |-> Now]
    IN IF Truthy(error_info) THEN SetItem(base, "error_details", error_info)
       ELSE base

RejectErrorMessage == "Failed to process reject request: <message>"

\* validation and uuid4
CertReject(r, b) ==
    /\ h[r].pc = "idle"
    /\ IF Rejection(b) # NoResponse
       THEN /\ h' = [h EXCEPT ![r] = [@ EXCEPT !.pc = "done", !.op = "reject",
                                         !.body = b,
                                         !.response = Rejection(b)]]
            /\ UNCHANGED uuids
       ELSE /\ uuids' = uuids + 1
            /\ h' = [h EXCEPT ![r] = [@ EXCEPT !.pc = "call", !.op = "reject",
                                         !.body = b,
                                         !.request_id = uuids + 1]]
    /\ UNCHANGED <<variant, WEBHOOK_RETRY_COUNT, request_tracking, tpc, up, wh>>

\* Flask server: the try block up to the call of _send_webhook, on the
\* success path or in the except RequestException clause
FlaskRejectCall(r, o) ==
    /\ variant = "flask"
    /\ h[r].pc = "call"
    /\ LET ok == PostRaises(o, TRUE) = "none"
           api_result == IF ok THEN JsonValue(o.body) ELSE PyNone
       IN /\ up' = [up EXCEPT ![r] = [calls |-> @.calls + 1, outcome |-> o,
                                      api_result |-> api_result,
                                      error_info |-> PyNone]]
          /\ wh' = [wh EXCEPT ![r] = [@ EXCEPT
                 !.pc = "post",
                 !.callback_url = h[r].body.callback_url,
                 !.payload =
                     IF ok THEN RejectSuccessPayload(h[r].request_id,
                                    h[r].body.domain, api_result)
                     ELSE RejectErrorPayload(h[r].request_id,
                                    h[r].body.domain, PyNone)]]
    /\ h' = [h EXCEPT ![r] = [@ EXCEPT !.pc = "deliver"]]
    /\ UNCHANGED <<variant, WEBHOOK_RETRY_COUNT, uuids, request_tracking, tpc>>

\* the Flask reject handler answering 500 when the delivery has failed
FlaskRejectRespond_delivery_code(r) ==
    /\ h[r].pc = "deliver"
    /\ wh[r].pc = "returned"
    /\ h' = [h EXCEPT ![r] = [@ EXCEPT !.pc = "done",
                 !.response =
                     IF /\ PostRaises(up[r].outcome, TRUE) = "none"
                        /\ wh[r].ret = "True"
                     THEN RejectSuccessResponse(h[r].request_id)
                     ELSE ErrorResponse(RejectErrorMessage, 500)]]
    /\ UNCHANGED <<variant, WEBHOOK_RETRY_COUNT, uuids, request_tracking, tpc,
                   up, wh>>

\* Flask server: the return after _send_webhook has returned
FlaskRejectRespond(r) ==
    /\ h[r].pc = "deliver"
    /\ wh[r].pc = "returned"
    /\ h' = [h EXCEPT ![r] = [@ EXCEPT !.pc = "done",
                 !.response =
                     IF PostRaises(up[r].outcome, TRUE) = "none"
                     THEN RejectSuccessResponse(h[r].request_id)
                     ELSE ErrorResponse(RejectErrorMessage, 500)]]
    /\ UNCHANGED <<variant, WEBHOOK_RETRY_COUNT, uuids, request_tracking, tpc,
                   up, wh>>

\* FastAPI server: await run_in_executor(_call_reject_api), then either
\* add_task + raise HTTPException(500) or add_task + return.  Tasks added to
\* the injected BackgroundTasks run with the returned response; when the
\* handler raises, the response comes from the exception handler and the
\* added task is never run.
FastapiRejectCall(r, o) ==
    /\ variant = "fastapi"
    /\ h[r].pc = "call"
    /\ LET res == call_reject_api(o) IN
       /\ up' = [up EXCEPT ![r] = [calls |-> @.calls + 1, outcome |-> o,
                                   api_result |-> res[1],
                                   error_info |-> res[2]]]
       /\ IF res[1] = PyNone
          THEN /\ wh' = [wh EXCEPT ![r] = [@ EXCEPT
                      !.callback_url = h[r].body.callback_url,
                      !.payload = RejectErrorPayload(h[r].request_id,
                                      h[r].body.domain, res[2])]]
               /\ tpc' = [tpc EXCEPT ![r] = "dropped"]
               /\ h' = [h EXCEPT ![r] = [@ EXCEPT !.pc = "done",
                            !.response = HTTPExceptionResponse(500,
                                             RejectErrorMessage)]]
          ELSE /\ wh' = [wh EXCEPT ![r] = [@ EXCEPT
                      !.pc = "post",
                      !.callback_url = h[r].body.callback_url,
                      !.payload = RejectSuccessPayload(h[r].request_id,
                                      h[r].body.domain, res[1])]]
               /\ tpc' = [tpc EXCEPT ![r] = "reject_webhook"]
               /\ h' = [h EXCEPT ![r] = [@ EXCEPT !.pc = "done",
                            !.response =
                                RejectSuccessResponse(h[r].request_id)]]
    /\ UNCHANGED <<variant, WEBHOOK_RETRY_COUNT, uuids, request_tracking>>

\* FastAPI server: the background task _send_webhook has returned
RejectWebhookReturn(r) ==
    /\ tpc[r] = "reject_webhook"
    /\ wh[r].pc = "returned"
    /\ tpc' = [tpc EXCEPT ![r] = "done"]
    /\ UNCHANGED <<variant, WEBHOOK_RETRY_COUNT, uuids, request_tracking, h,
                   up, wh>>

\* -------------------------------------------------------------- get_status
\* GET /status/{request_id}: one read of request_tracking, no write
get_status(id) ==
    IF id \notin DOMAIN request_tracking
    THEN IF variant = "flask" THEN ErrorResponse("Request not found", 404)
         ELSE HTTPExceptionResponse(404, "Request not found")
    ELSE [code |-> 200, body |-> request_tracking[id]]

\* ----------------------------------------------------------- specification
Next ==
    \/ \E r \in Requests : \E b \in InboundBodies(r) : CertAdd(r, b)
    \/ \E r \in Requests : CertAddRespond(r)
    \/ \E r \in Requests : ProcessCreate(r)
    \/ \E r \in Requests, o \in UpstreamOutcomes : ProcessCall(r, o)
    \/ \E r \in Requests : ProcessFailStatus(r)
    \/ \E r \in Requests : ProcessFailError(r)
    \/ \E r \in Requests : ProcessFailReturn(r)
    \/ \E r \in Requests : ProcessOkStatus(r)
    \/ \E r \in Requests : ProcessOkCompletedAt(r)
    \/ \E r \in Requests : ProcessOkResult(r)
    \/ \E r \in Requests : ProcessWebhookStatus(r)
    \/ \E r \in Requests, o \in RelayCallbackOutcomes : SendWebhook(r, o)
    \/ \E r \in Requests : \E b \in InboundBodies(r) : CertReject(r, b)
    \/ \E r \in Requests, o \in UpstreamOutcomes : FlaskRejectCall(r, o)
    \/ \E r \in Requests : FlaskRejectRespond(r)
    \/ \E r \in Requests, o \in UpstreamOutcomes : FastapiRejectCall(r, o)
    \/ \E r \in Requests : RejectWebhookReturn(r)

Spec == Init /\ [][Next]_vars

\* One call of _send_webhook on its own, against every callback behaviour:
\* the state at the call, and the activations of the function.
DirectPayloads ==
    {AddSuccessPayload(1, PyStr(DomainOf(1)), JsonValue("{}")),
     AddErrorPayload(1, PyStr(DomainOf(1)), PyNone)}

InitWebhook ==
    /\ variant \in {"flask", "fastapi"}
    /\ WEBHOOK_RETRY_COUNT \in RetryCounts
    /\ uuids = 0
    /\ request_tracking = [i \in {} |-> EmptyDict]
    /\ h = [r \in Requests |-> HandlerInit]
    /\ tpc = [r \in Requests |-> "none"]
    /\ up = [r \in Requests |-> UpInit]
    /\ \E p \in DirectPayloads :
           wh = [r \in Requests |->
                    IF r = 1
                    THEN [WebhookInit EXCEPT !.pc = "post",
                                             !.callback_url = GoodUrl,
                                             !.payload = p]
                    ELSE WebhookInit]

NextWebhook == \E r \in Requests, o \in CallbackOutcomes : SendWebhook(r, o)

SpecWebhook == InitWebhook /\ [][NextWebhook]_vars

\* Several add requests in flight at once: every caller sends a well-formed
\* body, the upstream either times out or returns a certificate, and the
\* tasks are interleaved statement by statement.
Adders == 1..(MaxRequests + 1)

ConcurrentUpstreamOutcomes ==
    {TimeoutOutcome, Response(200, "{\"cert\":\"PEM\"}")}

InitConcurrent ==
    /\ variant \in {"flask", "fastapi"}
    /\ WEBHOOK_RETRY_COUNT = 1
    /\ uuids = 0
    /\ request_tracking = [i \in {} |-> EmptyDict]
    /\ h = [r \in Adders |-> HandlerInit]
    /\ tpc = [r \in Adders |-> "none"]
    /\ up = [r \in Adders |-> UpInit]
    /\ wh = [r \in Adders |-> WebhookInit]

NextConcurrent ==
    \/ \E r \in Adders : CertAdd(r, FullBody(DomainOf(r), GoodUrl))
    \/ \E r \in Adders : CertAddRespond(r)
    \/ \E r \in Adders : ProcessCreate(r)
    \/ \E r \in Adders, o \in ConcurrentUpstreamOutcomes : ProcessCall(r, o)
    \/ \E r \in Adders : ProcessFailStatus(r)
    \/ \E r \in Adders : ProcessFailError(r)
    \/ \E r \in Adders : ProcessFailReturn(r)
    \/ \E r \in Adders : ProcessOkStatus(r)
    \/ \E r \in Adders : ProcessOkCompletedAt(r)
    \/ \E r \in Adders : ProcessOkResult(r)
    \/ \E r \in Adders : ProcessWebhookStatus(r)
    \/ \E r \in Adders, o \in RelayCallbackOutcomes : SendWebhook(r, o)

SpecConcurrent == InitConcurrent /\ [][NextConcurrent]_vars

\* The add requests alone, under a fair scheduler.  A caller sends the
\* well-formed body or no JSON at all; the upstream times out, answers 500,
\* or answers 200 with a certificate, with null or with a body that is no
\* JSON.
FairBodies(r) == {FullBody(DomainOf(r), GoodUrl), PyNone}

FairUpstreamOutcomes ==
    ConcurrentUpstreamOutcomes
        \cup {Response(200, "null"), Response(200, "<html>"),
              Response(500, "<html>")}

\* Every step that the thread (task), the delivery or the handler of the add
\* request r can take.  Each outbound call returns or times out, so the
\* steps that wait for one are steps like the others.
AddStep(r) ==
    \/ CertAddRespond(r)
    \/ ProcessCreate(r)
    \/ \E o \in FairUpstreamOutcomes : ProcessCall(r, o)
    \/ ProcessFailStatus(r)
    \/ ProcessFailError(r)
    \/ ProcessFailReturn(r)
    \/ ProcessOkStatus(r)
    \/ ProcessOkCompletedAt(r)
    \/ ProcessOkResult(r)
    \/ ProcessWebhookStatus(r)
    \/ \E o \in RelayCallbackOutcomes : SendWebhook(r, o)

NextFair ==
    \/ \E r \in Requests : \E b \in FairBodies(r) : CertAdd(r, b)
    \/ \E r \in Requests : AddStep(r)

\* a request that can take a step is not left waiting for ever
SpecFair ==
    /\ Init
    /\ [][NextFair]_vars
    /\ \A r \in Requests : WF_vars(AddStep(r))

\* ------------------------------------------------------ observation helpers
IsPost(e) == e.ev = "post"
Posts(r) == SelectSeq(wh[r].log, IsPost)
NumPosts(r) == Len(Posts(r))
AllPostsTimeOut(r) ==
    \A i \in 1..NumPosts(r) : Posts(r)[i].outcome = TimeoutOutcome

Record(r) == request_tracking[h[r].request_id]
Tracked(r) == h[r].request_id \in DOMAIN request_tracking

\* the request passed validation and was given an id
Accepted(r) == h[r].request_id # 0

\* the upstream answered 2xx with a body that parses as JSON
UpstreamSucceeded(r) ==
    /\ Is2xx(up[r].outcome)
    /\ JsonParses(up[r].outcome.body)

\* nothing more will run for request r
Finished(r) ==
    /\ h[r].pc = "done"
    /\ tpc[r] \in {"none", "done", "dropped"}

\* ------------------------------------------------------------------ claims

\* C1: once the 202 response of an add request has been produced, a status
\* query for the returned request_id never gets NotFound, in both servers.
C1_RecordExistsOnceAccepted ==
    \A r \in Requests :
        (h[r].op = "add" /\ h[r].response.code = 202)
            => get_status(h[r].response.body.request_id).code = 200

\* C2: an add request whose upstream call returns 2xx with a parseable JSON
\* body B (an object, {} or null) ends with status=completed and result=B.
C2_CompletedWithUpstreamBody ==
    \A r \in Requests :
        (h[r].op = "add" /\ tpc[r] = "done" /\ UpstreamSucceeded(r))
            => /\ Record(r).status = "completed"
               /\ "result" \in DOMAIN Record(r)
               /\ Record(r).result = JsonValue(up[r].outcome.body)

\* C3: when the upstream call succeeds and the callback answers the first
\* POST with 2xx, exactly one POST is made, carrying status=success, the
\* acknowledged request_id, the request's domain and cert_data = the body.
C3_OneSuccessPost ==
    \A r \in Requests :
        (/\ h[r].op = "add"
         /\ h[r].response.code = 202
         /\ tpc[r] = "done"
         /\ UpstreamSucceeded(r)
         /\ NumPosts(r) >= 1
         /\ Is2xx(Posts(r)[1].outcome))
            => /\ NumPosts(r) = 1
               /\ wh[r].payload.status = "success"
               /\ wh[r].payload.request_id = h[r].response.body.request_id
               /\ wh[r].payload.domain = h[r].body.domain
               /\ "cert_data" \in DOMAIN wh[r].payload
               /\ wh[r].payload.cert_data = JsonValue(up[r].outcome.body)

\* C4: when the upstream answers an add request with a non-2xx status S, the
\* record ends failed with error_type http_error and the payload POSTed to
\* the callback has error_details.status_code = S.  Stated for the 4xx and
\* 5xx answers, the ones raise_for_status turns into HTTPError.
C4_HttpErrorCarriesStatusCode ==
    \A r \in Requests :
        (/\ h[r].op = "add"
         /\ tpc[r] = "done"
         /\ up[r].outcome.kind = "response"
         /\ ~Is2xx(up[r].outcome)
         /\ RaisesForStatus(up[r].outcome))
            => /\ Record(r).status = "failed"
               /\ "error" \in DOMAIN Record(r)
               /\ "error_type" \in DOMAIN Record(r).error
               /\ Record(r).error.error_type = "http_error"
               /\ NumPosts(r) >= 1
               /\ "error_details" \in DOMAIN wh[r].payload
               /\ "status_code" \in DOMAIN wh[r].payload.error_details
               /\ wh[r].payload.error_details.status_code
                      = PyInt(up[r].outcome.code)

\* C5: with WEBHOOK_RETRY_COUNT >= 1, a delivery whose every attempt times
\* out makes exactly WEBHOOK_RETRY_COUNT POSTs and then returns False.
C5_TimeoutsExhaustRetries ==
    \A r \in Requests :
        (WEBHOOK_RETRY_COUNT >= 1 /\ AllPostsTimeOut(r))
            => /\ NumPosts(r) <= WEBHOOK_RETRY_COUNT
               /\ wh[r].pc = "post" => NumPosts(r) < WEBHOOK_RETRY_COUNT
               /\ wh[r].pc = "returned"
                      => /\ NumPosts(r) = WEBHOOK_RETRY_COUNT
                         /\ wh[r].ret = "False"

C5_Witness ==
    \E r \in Requests :
        /\ WEBHOOK_RETRY_COUNT >= 2
        /\ wh[r].pc = "returned"
        /\ AllPostsTimeOut(r)
        /\ NumPosts(r) = WEBHOOK_RETRY_COUNT
        /\ wh[r].ret = "False"

\* C6: for every integer WEBHOOK_RETRY_COUNT (0 and 1 included) one delivery
\* makes at most WEBHOOK_RETRY_COUNT POSTs, and it returns a boolean.
C6_AtMostRetryCountPosts ==
    \A r \in Requests :
        /\ NumPosts(r) <= WEBHOOK_RETRY_COUNT
        /\ wh[r].pc = "returned" => wh[r].ret \in {"True", "False"}

\* C7: an add request with one required field missing is answered with 400
\* and has no effect: no id, no record, no background task, no upstream call
\* and no webhook POST.
C7_MissingFieldRejected ==
    \A r \in Requests :
        (h[r].op = "add" /\ MissingOneField(h[r].body))
            => /\ h[r].pc = "done"
               /\ h[r].response.code = 400
               /\ h[r].request_id = 0
               /\ tpc[r] = "none"
               /\ up[r].calls = 0
               /\ wh[r] = WebhookInit
               /\ DOMAIN request_tracking
                      \subseteq {h[q].request_id :
                                    q \in {x \in Requests : Accepted(x)}}

\* C8: the handler of a valid add request can return at once, whatever its
\* background task is doing, and its response is the 202 acceptance with the
\* request_id and the domain, whatever the upstream call and the delivery
\* come to.
C8_AcceptedAtOnce ==
    \A r \in Requests :
        (h[r].op = "add" /\ Rejection(h[r].body) = NoResponse)
            => /\ h[r].pc = "started" => ENABLED CertAddRespond(r)
               /\ h[r].pc = "done"
                      => h[r].response
                             = AcceptedResponse(h[r].request_id,
                                                h[r].body.domain)

C8_Witness ==
    \E r \in Requests :
        /\ h[r].op = "add"
        /\ h[r].response.code = 202
        /\ tpc[r] = "done"
        /\ up[r].outcome = TimeoutOutcome
        /\ wh[r].ret = "False"

\* C9: a reject request whose upstream call fails gets a 500 response and at
\* least one POST of the error payload to callback_url, in both servers.
C9_RejectFailureNotified ==
    \A r \in Requests :
        (/\ h[r].op = "reject"
         /\ Finished(r)
         /\ up[r].calls > 0
         /\ PostRaises(up[r].outcome, TRUE) # "none")
            => /\ h[r].response.code = 500
               /\ NumPosts(r) >= 1
               /\ wh[r].payload.status = "error"

\* C10: a status query for the request_id returned by an accepted reject
\* request never gets NotFound (every returned id has a tracker record).
C10_RejectIdTracked ==
    \A r \in Requests :
        (/\ h[r].op = "reject"
         /\ h[r].pc = "done"
         /\ "request_id" \in DOMAIN h[r].response.body)
            => get_status(h[r].response.body.request_id).code = 200

\* the ids uuid4 has produced for inbound requests so far
GeneratedIds == {h[r].request_id : r \in {x \in Requests : Accepted(x)}}

\* the ids that a response has handed to an inbound caller
ReturnedIds ==
    {h[r].response.body.request_id :
        r \in {x \in Requests : /\ h[x].response # NoResponse
                                /\ "request_id" \in DOMAIN h[x].response.body}}

\* no handler is between its uuid4 call and its response
HandlersQuiet == \A r \in Requests : h[r].pc \in {"idle", "done"}

\* C11: a status query answers 404 for every id that no add or reject call
\* has produced (and, once the handlers have answered, for every id that no
\* response has returned); a record only ever sits under the id generated
\* for the add request it describes.
C11_UnknownIdNotFound ==
    /\ \A id \in Ids \ GeneratedIds : get_status(id).code = 404
    /\ HandlersQuiet
           => \A id \in Ids \ ReturnedIds : get_status(id).code = 404
    /\ \A id \in DOMAIN request_tracking :
           \E r \in Requests :
               /\ h[r].op = "add"
               /\ h[r].request_id = id
               /\ request_tracking[id].domain = h[r].body.domain

C11_Witness ==
    /\ HandlersQuiet
    /\ \E r \in Requests : Tracked(r) /\ tpc[r] = "done"
    /\ \E id \in Ids \ ReturnedIds : get_status(id).code = 404

\* C12: for a tracker record whose background task has finished,
\* completed_at is present exactly when status is no longer processing.
\* (The claim speaks of every reachable state; this is its instance at the
\* states where the task has returned.)
C12_CompletedAtIffTerminal ==
    \A r \in Requests :
        (Tracked(r) /\ tpc[r] = "done")
            => (("completed_at" \in DOMAIN Record(r))
                    <=> (Record(r).status # "processing"))

\* C13: no tracker record carries both result and error; result is present
\* only in a record whose status is completed, error only in a record whose
\* status is failed.
C13_ResultXorError ==
    \A id \in DOMAIN request_tracking :
        LET rec == request_tracking[id]
        IN /\ ~ ("result" \in DOMAIN rec /\ "error" \in DOMAIN rec)
           /\ "result" \in DOMAIN rec => rec.status = "completed"
           /\ "error" \in DOMAIN rec => rec.status = "failed"

C13_Witness ==
    /\ \E r \in Requests :
           /\ Tracked(r)
           /\ tpc[r] = "done"
           /\ "error" \in DOMAIN Record(r)
           /\ Record(r).status = "failed"

TerminalStatuses == {"completed", "failed"}

\* one step of the tracker as far as status and webhook_status go
C14_StatusStep ==
    /\ \A id \in DOMAIN request_tracking :
           /\ id \in DOMAIN request_tracking'
           /\ \/ request_tracking'[id].status = request_tracking[id].status
              \/ /\ request_tracking[id].status = "processing"
                 /\ request_tracking'[id].status \in TerminalStatuses
           /\ "webhook_status" \in DOMAIN request_tracking[id]
                  => "webhook_status" \in DOMAIN request_tracking'[id]
    /\ \A id \in DOMAIN request_tracking' :
           /\ id \notin DOMAIN request_tracking
                  => request_tracking'[id].status = "processing"
           /\ "webhook_status" \in DOMAIN request_tracking'[id]
                  => /\ id \in DOMAIN request_tracking
                     /\ request_tracking[id].status \in TerminalStatuses
                     /\ request_tracking'[id].status \in TerminalStatuses

\* C14: a record starts as processing, its status moves once to completed or
\* to failed and then stays; webhook_status is written only in a record whose
\* status is already completed or failed.
C14_StatusOnlyForward == [][C14_StatusStep]_vars

C14_Witness ==
    \E r \in Requests :
        /\ Tracked(r)
        /\ Record(r).status = "completed"
        /\ "webhook_status" \in DOMAIN Record(r)

\* C15: once the delivery of an add request's webhook has finished and the
\* task has returned, the record carries webhook_status: sent when
\* _send_webhook returned true, failed when it returned false, whether the
\* upstream call had succeeded or failed; webhook_status is absent while the
\* delivery has not returned.
C15_WebhookStatusRecorded ==
    \A r \in Requests :
        Tracked(r) =>
            /\ "webhook_status" \in DOMAIN Record(r) => wh[r].pc = "returned"
            /\ (tpc[r] = "done" /\ wh[r].pc = "returned")
                   => /\ "webhook_status" \in DOMAIN Record(r)
                      /\ Record(r).webhook_status =
                             (IF wh[r].ret = "True" THEN "sent" ELSE "failed")

\* C16: an accepted add or reject request calls the upstream API at most
\* once at any time and exactly once by the time nothing more runs for it,
\* whether the call succeeded or failed; that one call has been made before
\* the first webhook POST, and no number of POSTs adds another.
C16_OneUpstreamCall ==
    \A r \in Requests :
        /\ up[r].calls <= 1
        /\ ~ Accepted(r) => up[r].calls = 0
        /\ NumPosts(r) >= 1 => up[r].calls = 1
        /\ (Accepted(r) /\ Finished(r)) => up[r].calls = 1

C16_Witness ==
    \E r \in Requests :
        /\ Accepted(r)
        /\ Finished(r)
        /\ up[r].calls = 1
        /\ ~ UpstreamSucceeded(r)
        /\ NumPosts(r) >= 2

\* the error_type the classification rule gives to a failed upstream call
ExpectedErrorType(o) ==
    IF o.kind = "timeout" THEN "timeout"
    ELSE IF o.kind = "response" /\ ~ Is2xx(o) THEN "http_error"
    ELSE "request_error"

\* the upstream call ended in a timeout, a connection failure or a 4xx/5xx
\* answer
UpstreamRaised(o) ==
    \/ o.kind \in {"timeout", "connerr"}
    \/ o.kind = "response" /\ RaisesForStatus(o)

\* C17: when the upstream call of an add or of a reject request ends in a
\* timeout, a 4xx/5xx answer or a connection failure, the error information
\* built for it carries the one error_type of the rule: timeout, http_error
\* or request_error respectively.  (3xx answers, which the claim also counts
\* as non-2xx, and the reject handler of app.py, which builds no error
\* information at all, are left out of the premise.)
C17_FailureClassified ==
    \A r \in Requests :
        (/\ up[r].calls = 1
         /\ UpstreamRaised(up[r].outcome)
         /\ up[r].error_info # PyNone)
            => up[r].error_info.error_type = ExpectedErrorType(up[r].outcome)
\* C18: whatever moment a status query is answered at, the record in its
\* 200 response is consistent: with status completed it has result and
\* completed_at, with status failed it has error.
C18_StatusQueryConsistent ==
    \A id \in Ids :
        get_status(id).code = 200 =>
            LET rec == get_status(id).body
            IN /\ rec.status = "completed"
                      => /\ "result" \in DOMAIN rec
                         /\ "completed_at" \in DOMAIN rec
               /\ rec.status = "failed" => "error" \in DOMAIN rec

\* C19: the events of one delivery alternate POST, wait, POST, ...: the
\* first event is attempt 1, attempt n+1 comes after exactly one wait that
\* follows the failed attempt n, every wait lasts WEBHOOK_RETRY_DELAY
\* whatever the attempt and whatever the failure, and a delivery that has
\* returned ends with a POST, not with a wait.
C19_OneFixedWaitBetweenAttempts ==
    \A r \in Requests :
        LET log == wh[r].log
        IN /\ \A i \in 1..Len(log) :
                  IF i % 2 = 1
                  THEN /\ log[i].ev = "post"
                       /\ log[i].attempt = (i + 1) \div 2
                  ELSE /\ log[i].ev = "sleep"
                       /\ log[i].delay = WEBHOOK_RETRY_DELAY
                       /\ PostRaises(log[i - 1].outcome, FALSE) # "none"
           /\ wh[r].pc = "returned" => Len(log) % 2 = 1
           /\ (wh[r].pc = "post" /\ log # <<>>) => Len(log) % 2 = 0

C19_Witness ==
    \E r \in Requests :
        /\ wh[r].pc = "returned"
        /\ wh[r].ret = "False"
        /\ Len(wh[r].log) = 5
        /\ wh[r].log[1].outcome = TimeoutOutcome
        /\ wh[r].log[3].outcome = Response(500, "ok")

\* C20: a delivery that has returned returned true exactly when one of its
\* POSTs was answered with a 2xx code; no POST follows a POST answered with
\* 2xx; a POST answered with another code is followed by a retry as long as
\* the retry budget lasts, like a POST that got no answer.
C20_TrueIffSome2xx ==
    \A r \in Requests :
        /\ wh[r].pc = "returned"
               => ((wh[r].ret = "True")
                      <=> \E i \in 1..NumPosts(r) : Is2xx(Posts(r)[i].outcome))
        /\ \A i \in 1..NumPosts(r) :
               i < NumPosts(r) => ~ Is2xx(Posts(r)[i].outcome)
        /\ \A i \in 1..NumPosts(r) :
               (/\ wh[r].pc = "returned"
                /\ ~ Is2xx(Posts(r)[i].outcome)
                /\ i < WEBHOOK_RETRY_COUNT)
                   => i < NumPosts(r)

\* _process_cert_request run from its first statement to its return with
\* nothing else running: the record it leaves for a request with this body
\* when the upstream call ends with o and _send_webhook returns ret
process_cert_request_alone(body, o, ret) ==
    LET created == [status |-> "processing", requested_at |-> Now,
                    domain |-> body.domain,
                    callback_url |-> body.callback_url]
        res == call_cert_api(o)
    IN IF res[1] = PyNone
       THEN SetItem(SetItem(created, "status", "failed"), "error",
                    IF Truthy(res[2]) THEN res[2]
                    ELSE PyStr("API call failed"))
       ELSE SetItem(
                SetItem(
                    SetItem(SetItem(created, "status", "completed"),
                            "completed_at", Now),
                    "result", res[1]),
                "webhook_status",
                IF ret = "True" THEN "sent" ELSE "failed")

\* the record of every finished add task is the one its request gives alone
C21_FinalRecordAsAlone ==
    \A r \in Adders :
        tpc[r] = "done"
            => /\ Tracked(r)
               /\ Record(r) = process_cert_request_alone(
                                  h[r].body, up[r].outcome, wh[r].ret)

\* a record changes only in a step of the task of its own request, and two
\* accepted requests never share an id
C21_OwnRecordStep ==
    /\ \A r \in Adders :
           (Tracked(r) /\ tpc'[r] = tpc[r])
               => /\ h[r].request_id \in DOMAIN request_tracking'
                  /\ request_tracking'[h[r].request_id] = Record(r)
    /\ \A r, q \in Adders :
           (r # q /\ Accepted(r) /\ Accepted(q))
               => h[r].request_id # h[q].request_id

\* C21: with several add requests in flight, under every interleaving of
\* their tasks, each task writes only the record of its own request_id and
\* the record it leaves is the one the request gives when processed alone
\* with the same upstream and callback outcomes.
C21_TasksWriteOwnRecord ==
    /\ []C21_FinalRecordAsAlone
    /\ [][C21_OwnRecordStep]_vars

C21_Witness ==
    \E r, q \in Adders :
        /\ r # q
        /\ tpc[r] = "done"
        /\ tpc[q] = "done"
        /\ h[r].request_id < h[q].request_id
        /\ Record(r).status = "completed"
        /\ Record(q).status = "failed"

CreationFields == {"domain", "callback_url", "requested_at"}

\* one step of the tracker, seen from a record that exists before it
C22_MergeStep ==
    \A id \in DOMAIN request_tracking :
        /\ id \in DOMAIN request_tracking'
        /\ DOMAIN request_tracking[id] \subseteq DOMAIN request_tracking'[id]
        /\ \A k \in CreationFields :
               /\ k \in DOMAIN request_tracking[id]
               /\ request_tracking'[id][k] = request_tracking[id][k]
        /\ \A k \in DOMAIN request_tracking[id] :
               request_tracking'[id][k] # request_tracking[id][k]
                   => k = "status"

\* C22: every update of a record after its creation is a field-level merge:
\* domain, callback_url and requested_at keep their creation values through
\* the moves to completed and to failed and the writing of webhook_status,
\* no update removes a field, and the only field whose value is ever
\* rewritten is status.
C22_UpdatesAreMerges == [][C22_MergeStep]_vars

C22_Witness ==
    \E r \in Requests :
        /\ Tracked(r)
        /\ tpc[r] = "done"
        /\ "webhook_status" \in DOMAIN Record(r)
        /\ Record(r).domain = h[r].body.domain
        /\ Record(r).callback_url = h[r].body.callback_url

\* what an add request has come to when its task has returned
AddTerminated(r) ==
    /\ tpc[r] = "done"
    /\ Tracked(r)
    /\ Record(r).status \in TerminalStatuses
    /\ up[r].calls = 1
    /\ NumPosts(r) >= 1
    /\ NumPosts(r) <= (IF WEBHOOK_RETRY_COUNT > 1 THEN WEBHOOK_RETRY_COUNT
                       ELSE 1)

\* C23: under a fair scheduler, and with every outbound call returning or
\* timing out, every accepted add request leads to a state where its task
\* has returned, its record has status completed or failed, the upstream
\* was called once and the POSTs made are within the retry bound.
C23_AddTerminates ==
    \A r \in Requests :
        (h[r].op = "add" /\ Accepted(r)) ~> AddTerminated(r)

C23_Witness ==
    \E r \in Requests :
        /\ h[r].op = "add"
        /\ AddTerminated(r)
        /\ NumPosts(r) = MaxRetryCount

\* the record of request r as a status query returns it is terminal and
\* complete
TerminalRecord(r) ==
    /\ get_status(h[r].request_id).code = 200
    /\ LET rec == get_status(h[r].request_id).body
       IN \/ /\ rec.status = "completed"
             /\ "result" \in DOMAIN rec
          \/ /\ rec.status = "failed"
             /\ "error" \in DOMAIN rec

\* C24: from the moment _send_webhook is entered for an add request, hence
\* at every POST made for it and ever after, a status query for its id
\* returns status completed with result or failed with error, never
\* processing.
C24_TerminalBeforeFirstPost ==
    \A r \in Requests :
        (h[r].op = "add" /\ (wh[r].pc # "idle" \/ NumPosts(r) >= 1))
            => TerminalRecord(r)

C24_Witness ==
    \E r \in Requests :
        /\ h[r].op = "add"
        /\ wh[r].pc = "post"
        /\ NumPosts(r) = 0
        /\ TerminalRecord(r)
        /\ Record(r).status = "completed"

\* the reject request r passed validation and has been answered
RejectAnswered(r) ==
    /\ h[r].op = "reject"
    /\ Accepted(r)
    /\ h[r].response # NoResponse

\* the upstream call of r returned to its caller without an exception
UpstreamReturned(r) == PostRaises(up[r].outcome, TRUE) = "none"

\* C25: on the Flask server an accepted reject request is answered only
\* when its upstream call has been made and its delivery has returned, with
\* 200 when the upstream call succeeded and 500 when it failed, whatever the
\* delivery returned; on the FastAPI server a POST to the callback of a
\* reject request is made only after the request has been answered.
C25_RejectResponseOrder ==
    \A r \in Requests :
        /\ (variant = "flask" /\ RejectAnswered(r))
               => /\ up[r].calls = 1
                  /\ wh[r].pc = "returned"
                  /\ NumPosts(r) >= 1
                  /\ h[r].response.code
                         = (IF UpstreamReturned(r) THEN 200 ELSE 500)
        /\ (variant = "fastapi" /\ h[r].op = "reject" /\ NumPosts(r) >= 1)
               => RejectAnswered(r)

C25_Witness ==
    \E r \in Requests :
        /\ variant = "flask"
        /\ RejectAnswered(r)
        /\ UpstreamReturned(r)
        /\ wh[r].ret = "False"
        /\ h[r].response.code = 200
====
